---- MODULE Spec2Model ----
(***************************************************************************)
(* webgl-image-sequence: a textured quad whose texture is swapped among a  *)
(* numbered image sequence on pointer movement.                            *)
(*                                                                         *)
(* Spec      models the page script (startup, image load callbacks,        *)
(*           mousemove listener, animation frames) against the state of    *)
(*           the WebGL context it drives.                                  *)
(* SpecUtils applies the exported utility functions to inputs drawn from   *)
(*           bounded sets.                                                 *)
(*                                                                         *)
(* JavaScript numbers are modelled as exact rationals <<num, den>> with    *)
(* den > 0; every arithmetic step of the source is carried out on them in  *)
(* the order the source performs it.                                       *)
(***************************************************************************)
EXTENDS Integers, Sequences, FiniteSets, TLC

VARIABLES
    innerWidth,     \* window.innerWidth
    pc,             \* position of the page script
    textures,       \* WebGLTexture objects of the context, by handle 1..Len
    images,         \* the Image element behind each texture, same index
    boundTexture,   \* TEXTURE_2D binding of the active unit (0 = null)
    shaders,        \* WebGLShader objects of the context, by handle 1..Len
    vertexShader,   \* const vertexShader   [assigned, handle]  (handle 0 = undefined)
    fragmentShader, \* const fragmentShader [assigned, handle]
    console,        \* console.log output of the utilities
    e,              \* the last MouseEvent delivered to the listener
    lastCompleted,  \* handle whose onload callback ran most recently (0 = none)
    sampled,        \* texture sampled by the last drawArrays (0 = no draw yet)
    fn,             \* SpecUtils: the utility called last
    args,           \* SpecUtils: its arguments
    ret             \* SpecUtils: its return value

progVars  == <<pc, textures, images, boundTexture, shaders, vertexShader,
               fragmentShader, console, e, lastCompleted, sampled>>
vars      == <<innerWidth, pc, textures, images, boundTexture, shaders,
               vertexShader, fragmentShader, console, e, lastCompleted,
               sampled, fn, args, ret>>

----------------------------------------------------------------------------
(* Bounds *)

MaxWidth  == 3      \* viewport widths 1..MaxWidth
MaxLoads  == 2      \* pointer-driven texture loads per run
MaxDim    == 3      \* decoded image sides 1..MaxDim
MaxN      == 3      \* repeat counts 0..MaxN
MaxLen    == 2      \* pattern lengths 0..MaxLen
MaxAbs    == 2      \* caller-supplied min, max in -MaxAbs..MaxAbs (and the deployed pair)

(* Program constants *)

imageSequenceLength == 118
imageTexture        == 1      \* handle returned by the first createTexture call

----------------------------------------------------------------------------
(* Number arithmetic *)

Num(n)       == <<n, 1>>
RatAdd(a, b) == <<a[1] * b[2] + b[1] * a[2], a[2] * b[2]>>
RatSub(a, b) == <<a[1] * b[2] - b[1] * a[2], a[2] * b[2]>>
RatMul(a, b) == <<a[1] * b[1], a[2] * b[2]>>
RatDiv(a, b) == IF b[1] > 0 THEN <<a[1] * b[2], a[2] * b[1]>>
                            ELSE <<-(a[1] * b[2]), -(a[2] * b[1])>>
RatEq(a, b)  == a[1] * b[2] = b[1] * a[2]
RatLeq(a, b) == a[1] * b[2] <= b[1] * a[2]
MathFloor(a) == a[1] \div a[2]

(* The & operator on two's-complement operands (all operands here lie within
   the 32 bits ToInt32 keeps, so the conversion changes nothing): bit 0 of
   each operand is v % 2, the remaining bits are v \div 2 (floor), and the
   sign extension of a negative operand ends in -1. *)
RECURSIVE BitAnd(_, _)
BitAnd(a, b) ==
    IF a = 0 \/ b = 0 THEN 0
    ELSE IF a = -1 THEN b
    ELSE IF b = -1 THEN a
    ELSE (a % 2) * (b % 2) + 2 * BitAnd(a \div 2, b \div 2)

----------------------------------------------------------------------------
(* utils: pure functions *)

\* repeat(n, pattern): [...Array(n)].reduce((sum) => sum.concat(pattern), [])
RECURSIVE Reduce(_, _)
Reduce(n, pattern) ==
    IF n = 0 THEN <<>> ELSE Reduce(n - 1, pattern) \o pattern

repeat_m(n, pattern) == Reduce(n, pattern) \o pattern
repeat(n, pattern) == Reduce(n, pattern)

\* isPowerOf2(value): (value & (value - 1)) === 0
isPowerOf2(value) == BitAnd(value, value - 1) = 0

\* getMouseX(x): (x / window.innerWidth) * 2 - 1
getMouseX_mirror(x) ==
    RatSub(Num(1), RatMul(RatDiv(x, Num(innerWidth)), Num(2)))
getMouseX_nooffset(x) ==
    RatMul(RatDiv(x, Num(innerWidth)), Num(2))
getMouseX(x) ==
    RatSub(RatMul(RatDiv(x, Num(innerWidth)), Num(2)), Num(1))

\* Math.floor(((x + min) * max) / 2) with x = getMouseX(e.clientX)
textureIndex_nohalf(ev, min, max) ==
    MathFloor(RatMul(RatAdd(getMouseX(ev.clientX), Num(min)), Num(max)))
textureIndex(ev, min, max) ==
    MathFloor(RatDiv(RatMul(RatAdd(getMouseX(ev.clientX), Num(min)), Num(max)),
                     Num(2)))

----------------------------------------------------------------------------
(* WebGL objects *)

\* gl.createTexture(): no image, default sampling parameters
NewTexture ==
    [image |-> FALSE, mipmap |-> FALSE, wrapS |-> "REPEAT", wrapT |-> "REPEAT",
     minFilter |-> "NEAREST_MIPMAP_LINEAR"]

Handles == 1..Len(textures)

MouseEvent(x) == [type |-> "mousemove", clientX |-> x]
NoEvent       == [type |-> "none", clientX |-> Num(0)]

\* SpecUtils: the argument and result slots of a call, all present in every
\* state; a call fills the slots of the function called.
NoArgs == [n |-> 0, pattern |-> <<>>, value |-> 0, x |-> Num(0), min |-> 0, max |-> 0]
NoRet  == [array |-> <<>>, bool |-> FALSE, x |-> Num(0), index |-> 0]

----------------------------------------------------------------------------
(* utils: operations on the context *)

\* loadTexture(gl, url): createTexture, new Image, onload registered,
\* image.src = url; returns the handle.  The handle it returns is
\* Len(textures').
loadTexture_bind(url) ==
    /\ textures' = Append(textures, NewTexture)
    /\ images' = Append(images, [src |-> url, state |-> "loading"])
    /\ boundTexture' = Len(textures) + 1
loadTexture(url) ==
    /\ textures' = Append(textures, NewTexture)
    /\ images' = Append(images, [src |-> url, state |-> "loading"])
    /\ boundTexture' = boundTexture

\* image.onload of loadTexture, for the image of texture t decoded as w x h
onload_nobind(t, w, h) ==
    /\ images[t].state = "loading"
    /\ boundTexture' = boundTexture
    /\ textures' =
         [textures EXCEPT ![t] =
            IF isPowerOf2(w) /\ isPowerOf2(h)
            THEN [@ EXCEPT !.image = TRUE, !.mipmap = TRUE]
            ELSE [@ EXCEPT !.image = TRUE, !.wrapS = "CLAMP_TO_EDGE",
                           !.wrapT = "CLAMP_TO_EDGE", !.minFilter = "LINEAR"]]
    /\ images' = [images EXCEPT ![t].state = "complete"]
    /\ lastCompleted' = t
onload(t, w, h) ==
    /\ images[t].state = "loading"
    /\ boundTexture' = t                                   \* gl.bindTexture
    /\ textures' =
         [textures EXCEPT ![boundTexture'] =               \* on the bound texture:
            IF isPowerOf2(w) /\ isPowerOf2(h)
            THEN [@ EXCEPT !.image = TRUE,                 \* gl.texImage2D
                           !.mipmap = TRUE]                \* gl.generateMipmap
            ELSE [@ EXCEPT !.image = TRUE,                 \* gl.texImage2D
                           !.wrapS = "CLAMP_TO_EDGE",      \* gl.texParameteri x3
                           !.wrapT = "CLAMP_TO_EDGE",
                           !.minFilter = "LINEAR"]]
    /\ images' = [images EXCEPT ![t].state = "complete"]
    /\ lastCompleted' = t

\* createShader(gl, type, source): `success` is COMPILE_STATUS of the source.
\* Sets the caller's const `target` to the returned value.
createShader_keep(type, success, target) ==
    /\ shaders' = Append(shaders, [type |-> type, compiled |-> success,
                                   deleted |-> FALSE])
    /\ console' = IF success THEN console
                  ELSE Append(console, [tag |-> "infoLog", arg |-> Len(shaders) + 1])
    /\ target' = [assigned |-> TRUE, handle |-> Len(shaders) + 1]
createShader(type, success, target) ==
    /\ shaders' = Append(shaders, [type |-> type, compiled |-> success,
                                   deleted |-> ~success])          \* gl.deleteShader
    /\ console' = IF success THEN console
                  ELSE Append(console, [tag |-> "infoLog", arg |-> Len(shaders) + 1])
    /\ target' = [assigned |-> TRUE,
                  handle |-> IF success THEN Len(shaders) + 1 ELSE 0]

\* handleImageShown(e, gl, min, max)
handleImageShown_nozero(ev, min, max) ==
    /\ loadTexture(textureIndex(ev, min, max))
    /\ console' = Append(console, [tag |-> "handleImageShown",
                                   arg |-> Len(textures) + 1])
handleImageShown(ev, min, max) ==
    IF textureIndex(ev, min, max) = 0
    THEN UNCHANGED <<textures, images, boundTexture, console>>
    ELSE /\ loadTexture(textureIndex(ev, min, max))
         /\ console' = Append(console, [tag |-> "handleImageShown",
                                        arg |-> Len(textures) + 1])

----------------------------------------------------------------------------
(* The page script *)

Init ==
    /\ innerWidth \in 1..MaxWidth
    /\ pc = "loadTexture"
    /\ textures = <<>>
    /\ images = <<>>
    /\ boundTexture = 0
    /\ shaders = <<>>
    /\ vertexShader = [assigned |-> FALSE, handle |-> 0]
    /\ fragmentShader = [assigned |-> FALSE, handle |-> 0]
    /\ console = <<>>
    /\ e = NoEvent
    /\ lastCompleted = 0
    /\ sampled = 0
    /\ fn = "none"
    /\ args = NoArgs
    /\ ret = NoRet

\* const imageTexture = loadTexture(gl, "assets/images/image-1.webp")
LoadInitialTexture ==
    /\ pc = "loadTexture"
    /\ loadTexture(1)
    /\ pc' = "bindTexture"
    /\ UNCHANGED <<innerWidth, shaders, vertexShader, fragmentShader, console,
                   e, lastCompleted, sampled, fn, args, ret>>

\* gl.pixelStorei; gl.activeTexture(gl.TEXTURE0); gl.bindTexture(gl.TEXTURE_2D, imageTexture)
BindInitialTexture ==
    /\ pc = "bindTexture"
    /\ boundTexture' = imageTexture
    /\ pc' = "vertexShader"
    /\ UNCHANGED <<innerWidth, textures, images, shaders, vertexShader,
                   fragmentShader, console, e, lastCompleted, sampled,
                   fn, args, ret>>

\* const vertexShader = createShader(gl, gl.VERTEX_SHADER, vertexShaderSrc)
CreateVertexShader ==
    /\ pc = "vertexShader"
    /\ \E success \in BOOLEAN :
         createShader("VERTEX_SHADER", success, vertexShader)
    /\ pc' = "fragmentShader"
    /\ UNCHANGED <<innerWidth, textures, images, boundTexture, fragmentShader,
                   e, lastCompleted, sampled, fn, args, ret>>

\* const fragmentShader = createShader(gl, gl.FRAGMENT_SHADER, fragmentShaderSrc)
CreateFragmentShader ==
    /\ pc = "fragmentShader"
    /\ \E success \in BOOLEAN :
         createShader("FRAGMENT_SHADER", success, fragmentShader)
    /\ pc' = "program"
    /\ UNCHANGED <<innerWidth, textures, images, boundTexture, vertexShader,
                   e, lastCompleted, sampled, fn, args, ret>>

\* createProgram .. uniform1i; animate(); addEventListener.  attachShader
\* rejects an undefined shader with a TypeError, which ends the script
\* before the first draw and before the listener is registered.
BuildProgramAndStart ==
    /\ pc = "program"
    /\ IF vertexShader.handle = 0 \/ fragmentShader.handle = 0
       THEN /\ pc' = "aborted"
            /\ sampled' = sampled
       ELSE /\ pc' = "running"
            /\ sampled' = boundTexture          \* first gl.drawArrays
    /\ UNCHANGED <<innerWidth, textures, images, boundTexture, shaders,
                   vertexShader, fragmentShader, console, e, lastCompleted,
                   fn, args, ret>>

\* requestAnimationFrame callback: gl.drawArrays samples unit 0's binding
animate ==
    /\ pc = "running"
    /\ sampled' = boundTexture
    /\ UNCHANGED <<innerWidth, pc, textures, images, boundTexture, shaders,
                   vertexShader, fragmentShader, console, e, lastCompleted,
                   fn, args, ret>>

\* canvas "mousemove" listener: handleImageShown(e, gl, 1, imageSequenceLength).
\* The canvas spans the viewport, so 0 <= clientX <= innerWidth.
MouseMove ==
    /\ pc = "running"
    /\ \E x \in 0..innerWidth :
         /\ e' = MouseEvent(Num(x))
         /\ \/ textureIndex(e', 1, imageSequenceLength) = 0
            \/ Len(textures) < 1 + MaxLoads
         /\ handleImageShown(e', 1, imageSequenceLength)
    /\ UNCHANGED <<innerWidth, pc, shaders, vertexShader, fragmentShader,
                   lastCompleted, sampled, fn, args, ret>>

\* The image of texture t finishes loading: its onload callback runs once
\* the script has returned to the event loop.
ImageLoad ==
    /\ pc \in {"running", "aborted"}
    /\ \E t \in Handles, w \in 1..MaxDim, h \in 1..MaxDim : onload(t, w, h)
    /\ UNCHANGED <<innerWidth, pc, shaders, vertexShader, fragmentShader,
                   console, e, sampled, fn, args, ret>>

\* The fetch of texture t's image fails: no handler is registered for it.
ImageError_onload ==
    /\ pc \in {"running", "aborted"}
    /\ \E t \in Handles :
         /\ images[t].state = "loading"
         /\ images' = [images EXCEPT ![t].state = "broken"]
         /\ boundTexture' = t
         /\ textures' = [textures EXCEPT ![t].wrapS = "CLAMP_TO_EDGE",
                                         ![t].wrapT = "CLAMP_TO_EDGE",
                                         ![t].minFilter = "LINEAR"]
    /\ UNCHANGED <<innerWidth, pc, shaders, vertexShader, fragmentShader,
                   console, e, lastCompleted, sampled, fn, args, ret>>
ImageError ==
    /\ pc \in {"running", "aborted"}
    /\ \E t \in Handles :
         /\ images[t].state = "loading"
         /\ images' = [images EXCEPT ![t].state = "broken"]
    /\ UNCHANGED <<innerWidth, pc, textures, boundTexture, shaders,
                   vertexShader, fragmentShader, console, e, lastCompleted,
                   sampled, fn, args, ret>>

Next ==
    \/ LoadInitialTexture
    \/ BindInitialTexture
    \/ CreateVertexShader
    \/ CreateFragmentShader
    \/ BuildProgramAndStart
    \/ animate
    \/ MouseMove
    \/ ImageLoad
    \/ ImageError

Spec == Init /\ [][Next]_vars

----------------------------------------------------------------------------
(* The utilities applied to drawn inputs *)

Patterns   == UNION {[1..l -> 1..2] : l \in 0..MaxLen}
PowValues  == {0, 1, 2, 3, 4, 5, 8, 256, 1023, 1024, 1025}
\* pointer positions in half pixels, from one pixel left of the viewport
\* to one pixel right of it
Positions  == {<<h, 2>> : h \in (-2)..(2 * innerWidth + 2)}
Mins       == (-MaxAbs)..MaxAbs
Maxs       == ((-MaxAbs)..MaxAbs) \cup {imageSequenceLength}

CallRepeat ==
    /\ \E n \in 0..MaxN, p \in Patterns :
         /\ fn' = "repeat"
         /\ args' = [NoArgs EXCEPT !.n = n, !.pattern = p]
         /\ ret' = [NoRet EXCEPT !.array = repeat(n, p)]
    /\ UNCHANGED <<innerWidth, progVars>>

CallIsPowerOf2 ==
    /\ \E v \in PowValues :
         /\ fn' = "isPowerOf2"
         /\ args' = [NoArgs EXCEPT !.value = v]
         /\ ret' = [NoRet EXCEPT !.bool = isPowerOf2(v)]
    /\ UNCHANGED <<innerWidth, progVars>>

CallGetMouseX ==
    /\ \E x \in Positions :
         /\ fn' = "getMouseX"
         /\ args' = [NoArgs EXCEPT !.x = x]
         /\ ret' = [NoRet EXCEPT !.x = getMouseX(x)]
    /\ UNCHANGED <<innerWidth, progVars>>

CallTextureIndex ==
    /\ \E x \in Positions, min \in Mins, max \in Maxs :
         /\ fn' = "textureIndex"
         /\ args' = [NoArgs EXCEPT !.x = x, !.min = min, !.max = max]
         /\ ret' = [NoRet EXCEPT !.index = textureIndex(MouseEvent(x), min, max)]
    /\ UNCHANGED <<innerWidth, progVars>>

NextUtils ==
    \/ CallRepeat
    \/ CallIsPowerOf2
    \/ CallGetMouseX
    \/ CallTextureIndex

SpecUtils == Init /\ [][NextUtils]_vars

----------------------------------------------------------------------------
(* Properties of the page script (Spec) *)

Started       == pc \in {"running", "aborted"}
PointerLoaded == Handles \ {imageTexture}
Deployed(ev)  == textureIndex(ev, 1, imageSequenceLength)
Logged(tag, arg) ==
    \E i \in 1..Len(console) : console[i] = [tag |-> tag, arg |-> arg]

\* C1 as stated: once the script runs, the texture bound to TEXTURE_2D on the
\* active unit is always the initial texture, whatever pointer moves and
\* load callbacks have happened.
C1_NeverRebound ==
    Started => boundTexture = imageTexture

\* C1 amended: the pointer-move handler itself leaves the binding alone, but
\* the completion callback of a pointer-driven load binds that load's texture
\* to TEXTURE_2D on the active unit.
C1_BoundByCallback ==
    [][ /\ (pc = "running" /\ Len(textures') > Len(textures))
            => boundTexture' = boundTexture
        /\ \A t \in PointerLoaded :
             (images[t].state = "loading" /\ images'[t].state = "complete")
                => boundTexture' = t ]_vars

C1_Witness ==
    /\ pc = "running"
    /\ boundTexture \in PointerLoaded
    /\ sampled = boundTexture

\* C2: in the deployed configuration every pointer event on the canvas yields
\* an index in 0..imageSequenceLength, and every image requested is
\* image-k with k in 1..imageSequenceLength.
C2_IndexRange ==
    /\ e.type = "mousemove" => Deployed(e) \in 0..imageSequenceLength
    /\ \A t \in Handles : images[t].src \in 1..imageSequenceLength

C2_Witness ==
    /\ e.type = "mousemove"
    /\ Deployed(e) = 0
    /\ \E t \in PointerLoaded : images[t].src = imageSequenceLength

\* C3: a pointer move whose index is 0 changes nothing in the context; one
\* whose index is k # 0 appends exactly one texture and one loading image
\* for image-k, leaves every earlier texture as it was and leaves the binding.
C3_FrameEffect ==
    [][ (pc = "running" /\ (e' # e \/ Len(textures') # Len(textures)))
          => LET k == Deployed(e')
                 n == Len(textures)
             IN  IF k = 0
                 THEN UNCHANGED <<textures, images, boundTexture, shaders>>
                 ELSE /\ Len(textures') = n + 1
                      /\ Len(images') = n + 1
                      /\ SubSeq(textures', 1, n) = textures
                      /\ SubSeq(images', 1, n) = images
                      /\ textures'[n + 1] = NewTexture
                      /\ images'[n + 1] = [src |-> k, state |-> "loading"]
                      /\ UNCHANGED <<boundTexture, shaders>> ]_vars

C3_Witness ==
    /\ e.type = "mousemove"
    /\ Deployed(e) = 0
    /\ Len(textures) = 3
    /\ images[2].state = "complete"
    /\ images[3].state = "loading"
    /\ textures[2].image

\* C4: a texture whose image is still loading or whose fetch failed is
\* allocated but has no image data, no mipmaps and untouched parameters, and
\* (the script's own bind of the initial texture aside) is not the bound one.
C4_FailedLoad ==
    \A t \in Handles :
        images[t].state \in {"loading", "broken"}
          => /\ textures[t] = NewTexture
             /\ t # imageTexture => boundTexture # t

C4_Witness ==
    \E t \in PointerLoaded, u \in PointerLoaded :
        /\ images[t].state = "broken"
        /\ images[u].state = "complete"
        /\ t < u

\* C5: each createShader call returns to the script; a shader that compiled
\* is returned and stays allocated, one that did not is logged, deleted and
\* answered by an undefined handle.
C5_Returned(v, s) ==
    v.assigned =>
        IF shaders[s].compiled
        THEN v.handle = s /\ ~shaders[s].deleted
        ELSE v.handle = 0 /\ shaders[s].deleted /\ Logged("infoLog", s)

C5_CreateShader ==
    /\ pc \notin {"loadTexture", "bindTexture", "vertexShader"}
         => vertexShader.assigned
    /\ pc \notin {"loadTexture", "bindTexture", "vertexShader", "fragmentShader"}
         => fragmentShader.assigned
    /\ C5_Returned(vertexShader, 1)
    /\ C5_Returned(fragmentShader, 2)
    /\ \A s \in 1..Len(shaders) : ~shaders[s].compiled => shaders[s].deleted

C5_Witness ==
    /\ pc = "aborted"
    /\ vertexShader = [assigned |-> TRUE, handle |-> 0]
    /\ fragmentShader = [assigned |-> TRUE, handle |-> 2]

\* C10: from the script's bind of the initial texture on, the texture bound
\* to TEXTURE_2D on the active unit is the one whose completion callback ran
\* most recently, or the initial texture when none has run.
C10_LastCompleted ==
    pc \notin {"loadTexture", "bindTexture"}
      => boundTexture = IF lastCompleted = 0 THEN imageTexture ELSE lastCompleted

\* two pointer loads completed in the reverse of their request order, and a
\* draw sampled the earlier request
C10_Witness ==
    \E t \in PointerLoaded, u \in PointerLoaded :
        /\ t < u
        /\ images[t].state = "complete"
        /\ images[u].state = "complete"
        /\ lastCompleted = t
        /\ sampled = t
        /\ images[t].src # images[u].src

----------------------------------------------------------------------------
(* Properties of the utilities (SpecUtils) *)

Half(n) == <<n, 2>>

\* C6 as stated: the check answers TRUE on 1, 2, 4, 8, 256, 1024 and FALSE on
\* 0, 3, 5, 1023, 1025.
C6_PowerOfTwo ==
    fn = "isPowerOf2"
      => /\ args.value \in {1, 2, 4, 8, 256, 1024} => ret.bool = TRUE
         /\ args.value \in {0, 3, 5, 1023, 1025} => ret.bool = FALSE

\* C7 as stated: for every min and max the index does not decrease as the
\* pointer moves right.
C7_Monotonic ==
    fn = "textureIndex"
      => \A x2 \in Positions :
            RatLeq(args.x, x2)
              => ret.index <= textureIndex(MouseEvent(x2), args.min, args.max)

\* C7 amended: for every min and every max >= 0 the index does not decrease
\* as the pointer moves right.
C7_MonotonicNonNegMax ==
    (fn = "textureIndex" /\ args.max >= 0)
      => \A x2 \in Positions :
            RatLeq(args.x, x2)
              => ret.index <= textureIndex(MouseEvent(x2), args.min, args.max)

C7_Witness ==
    /\ fn = "textureIndex"
    /\ args.max > 0
    /\ \E x2 \in Positions :
         /\ RatLeq(args.x, x2)
         /\ ret.index < textureIndex(MouseEvent(x2), args.min, args.max)

\* C8: repeat(n, p) has n * Len(p) elements, element i being element
\* ((i - 1) mod Len(p)) + 1 of p; repeat(0, p) is empty.
C8_Repeat ==
    fn = "repeat"
      => /\ Len(ret.array) = args.n * Len(args.pattern)
         /\ \A i \in 1..Len(ret.array) :
              ret.array[i] = args.pattern[((i - 1) % Len(args.pattern)) + 1]
         /\ args.n = 0 => ret.array = <<>>

C8_Witness ==
    /\ fn = "repeat"
    /\ args.n = 2
    /\ args.pattern = <<1, 2>>
    /\ ret.array = <<1, 2, 1, 2>>

\* C9: getMouseX sends 0 to -1, innerWidth to 1 and innerWidth / 2 to 0, and
\* with min = 1, max = 118 the pointer at the centre gives index 59.
C9_Normalised ==
    /\ fn = "getMouseX"
         => /\ RatEq(args.x, Num(0)) => RatEq(ret.x, Num(-1))
            /\ RatEq(args.x, Num(innerWidth)) => RatEq(ret.x, Num(1))
            /\ RatEq(args.x, Half(innerWidth)) => RatEq(ret.x, Num(0))
    /\ (fn = "textureIndex" /\ RatEq(args.x, Half(innerWidth))
          /\ args.min = 1 /\ args.max = imageSequenceLength)
         => ret.index = 59

C9_Witness ==
    /\ fn = "textureIndex"
    /\ innerWidth = 3
    /\ RatEq(args.x, Half(innerWidth))
    /\ args.min = 1
    /\ args.max = imageSequenceLength
    /\ ret.index = 59

====
